---- MODULE Spec2Model ----
(***************************************************************************)
(* Order placement and cached product listing of the e-commerce backend    *)
(* (src/backend/init.sql, the Express server that follows the SQL seed).   *)
(*                                                                         *)
(* Every `await` of a handler is one action: the awaited call takes effect *)
(* at the store or the cache, and the handler's synchronous code up to the *)
(* next call runs with it.  Each call may also reject (a lost connection): *)
(* the handler then continues in its catch block.                          *)
(*                                                                         *)
(* Money: node-postgres hands a DECIMAL column to JavaScript as a string;  *)
(* `price * item.quantity` and `total +=` are IEEE-754 double operations;  *)
(* the UPDATE casts the double back to DECIMAL(10, 2).  Prices are kept in *)
(* cents where they are decimals and as 53-bit doubles where the code has  *)
(* a JavaScript number.                                                    *)
(*                                                                         *)
(* The tables are those initDB creates (orders.user_id NOT NULL, no        *)
(* foreign key to users).  Requests start in the order of their numbers.   *)
(***************************************************************************)
EXTENDS Integers, Sequences, FiniteSets, TLC

\* ------------------------------------------------------------- bounds
MaxRequests == 2        \* requests started in one behaviour
MaxFaults == 1          \* store or cache calls that reject
MaxCatalogChanges == 1  \* edits of the products table by the catalog owner
TickSeconds == 150      \* seconds per clock advance

\* ------------------------------------------- IEEE-754 double arithmetic
\* A natural number is a little-endian sequence of 15-bit limbs, so that
\* every intermediate product stays below 2^31.
LimbBits == 15
MantBits == 53
ScaleBits == 64

RECURSIVE Pow2(_)
Pow2(n) == IF n = 0 THEN 1 ELSE 2 * Pow2(n - 1)

Base == Pow2(LimbBits)

RECURSIVE Trim(_)
Trim(x) == IF Len(x) > 0 /\ x[Len(x)] = 0 THEN Trim(SubSeq(x, 1, Len(x) - 1)) ELSE x

RECURSIVE Carry(_, _)
Carry(x, c) ==
    IF Len(x) = 0 THEN (IF c = 0 THEN << >> ELSE <<c % Base>> \o Carry(<< >>, c \div Base))
    ELSE <<(x[1] + c) % Base>> \o Carry(Tail(x), (x[1] + c) \div Base)

BigFromNat(n) == Carry(<<n>>, 0)

Limb(x, i) == IF i >= 1 /\ i <= Len(x) THEN x[i] ELSE 0

BigAdd(x, y) ==
    LET n == IF Len(x) > Len(y) THEN Len(x) ELSE Len(y)
    IN  Trim(Carry([i \in 1..n |-> Limb(x, i) + Limb(y, i)], 0))

BigMulSmall(x, k) == Trim(Carry([i \in 1..Len(x) |-> x[i] * k], 0))

RECURSIVE BigToNat(_)
BigToNat(x) == IF Len(x) = 0 THEN 0 ELSE x[1] + Base * BigToNat(Tail(x))

RECURSIVE LimbLen(_)
LimbLen(v) == IF v = 0 THEN 0 ELSE 1 + LimbLen(v \div 2)

BitLen(x) == IF Len(x) = 0 THEN 0 ELSE (Len(x) - 1) * LimbBits + LimbLen(x[Len(x)])

Bit(x, k) == (Limb(x, (k \div LimbBits) + 1) \div Pow2(k % LimbBits)) % 2

LowZero(x, k) ==
    /\ \A i \in 1..(k \div LimbBits) : Limb(x, i) = 0
    /\ Limb(x, (k \div LimbBits) + 1) % Pow2(k % LimbBits) = 0

Shr(x, n) ==
    LET a == n \div LimbBits
        b == n % LimbBits
        m == IF Len(x) > a THEN Len(x) - a ELSE 0
    IN  Trim([i \in 1..m |-> (x[i + a] \div Pow2(b))
                              + (Limb(x, i + a + 1) % Pow2(b)) * Pow2(LimbBits - b)])

Shl(x, n) ==
    LET a == n \div LimbBits
        b == n % LimbBits
    IN  IF Len(x) = 0 THEN << >>
        ELSE Trim([i \in 1..(Len(x) + a + 1) |->
                     ((Limb(x, i - a) % Pow2(LimbBits - b)) * Pow2(b))
                     + (Limb(x, i - a - 1) \div Pow2(LimbBits - b))])

RECURSIVE DivSmallFrom(_, _, _, _)
DivSmallFrom(x, d, i, r) ==
    IF i = 0 THEN [q |-> << >>, r |-> r]
    ELSE LET cur  == r * Base + x[i]
             rest == DivSmallFrom(x, d, i - 1, cur % d)
         IN  [q |-> Append(rest.q, cur \div d), r |-> rest.r]

BigDivSmall(x, d) ==
    LET res == DivSmallFrom(x, d, Len(x), 0)
    IN  [q |-> Trim(res.q), r |-> res.r]

\* A double is m * 2^e with 2^52 <= m < 2^53, or zero.
DZero == [m |-> << >>, e |-> 0]

\* The double nearest to x * 2^e, ties to even.
RoundDouble(x, e) ==
    LET len == BitLen(x)
    IN  IF len = 0 THEN DZero
        ELSE IF len <= MantBits
             THEN [m |-> Shl(x, MantBits - len), e |-> e - (MantBits - len)]
        ELSE LET n  == len - MantBits
                 q  == Shr(x, n)
                 up == Bit(x, n - 1) = 1 /\ (~LowZero(x, n - 1) \/ q[1] % 2 = 1)
                 q2 == IF up THEN BigAdd(q, <<1>>) ELSE q
             IN  IF BitLen(q2) > MantBits THEN [m |-> Shr(q2, 1), e |-> e + n + 1]
                 ELSE [m |-> q2, e |-> e + n]

\* ToNumber of a DECIMAL(10, 2) string: the double nearest to cents / 100.
\* It is also the double whose JSON text is that decimal.
DecToDouble(cents) ==
    LET d  == BigDivSmall(Shl(BigFromNat(cents), ScaleBits), 100)
        qs == BigAdd(Shl(d.q, 1), IF d.r = 0 THEN << >> ELSE <<1>>)
    IN  RoundDouble(qs, 0 - (ScaleBits + 1))

\* a * k for a non-negative integer k.
DMulInt(a, k) == RoundDouble(BigMulSmall(a.m, k), a.e)

DAdd(a, b) ==
    IF a.m = << >> THEN b
    ELSE IF b.m = << >> THEN a
    ELSE LET e == IF a.e < b.e THEN a.e ELSE b.e
         IN  RoundDouble(BigAdd(Shl(a.m, a.e - e), Shl(b.m, b.e - e)), e)

\* The cast of a JavaScript number to DECIMAL(10, 2) by the UPDATE: the
\* driver sends the number's shortest decimal text and the column rounds it
\* to two places.  That is the cent nearest to the double unless the text
\* ends exactly on a half cent, which a sum of whole cents is never near.
DoubleToCents(a) ==
    IF a.m = << >> THEN 0
    ELSE LET x == BigMulSmall(a.m, 100)
             n == 0 - a.e
             q == Shr(x, n)
         IN  BigToNat(IF Bit(x, n - 1) = 1 THEN BigAdd(q, <<1>>) ELSE q)

\* ------------------------------------------------------------ the data
\* initDB's seed rows 2 and 3 (one INSERT statement: one created_at).
SeedProducts ==
    (2 :> [price |-> 2999, stock |-> 200, created_at |-> 0])
    @@ (3 :> [price |-> 8999, stock |-> 100, created_at |-> 0])

\* What the catalog owner may set a price to.
RepricedTo == {1999}

\* A line item of a request; product 999 is not in the catalog.
Line(id, n) == [product_id |-> id, quantity |-> n]

\* The item lists clients send: the empty list, one line, two lines, a
\* quantity of zero, an unknown product first and after a good line.
ItemLists ==
    { << >>,
      <<Line(2, 3)>>,
      <<Line(2, 1), Line(3, 1)>>,
      <<Line(2, 0)>>,
      <<Line(999, 1)>>,
      <<Line(2, 1), Line(999, 1)>> }

\* req.body of POST /api/orders; a field the client left out is undefined.
Bodies ==
    { [hasUser |-> TRUE, user_id |-> 7, hasItems |-> TRUE, items |-> s] : s \in ItemLists }
    \cup { [hasUser |-> TRUE, user_id |-> 7, hasItems |-> FALSE, items |-> << >>],
           [hasUser |-> FALSE, user_id |-> 0, hasItems |-> TRUE, items |-> <<Line(2, 1)>>] }

NoBody == [hasUser |-> FALSE, user_id |-> 0, hasItems |-> FALSE, items |-> << >>]
NoResp == [status |-> 0, orderId |-> 0, total |-> DZero, body |-> << >>]
NoEntry == [present |-> FALSE, value |-> << >>, ttl |-> 0, stale |-> FALSE]

Requests == 1..MaxRequests

Blank ==
    [kind |-> "none", pc |-> "idle", body |-> NoBody, client |-> FALSE,
     orderId |-> 0, total |-> DZero, i |-> 0, price |-> 0,
     txOrders |-> {}, txItems |-> {}, rows |-> << >>, queried |-> FALSE,
     resp |-> NoResp,
     \* history, not program state
     failed |-> {}, committed |-> FALSE, delIssued |-> FALSE, released |-> 0,
     began |-> FALSE, ver |-> 0, stale |-> FALSE]

VARIABLES
    products,       \* table products: id -> [price (cents), stock, created_at]
    orders,         \* table orders, committed rows
    order_items,    \* table order_items, committed rows
    orders_id_seq,  \* the next value of orders.id (SERIAL)
    cache,          \* the redis key 'products': its value and time to live
    pool,           \* clients checked out of the pg Pool
    req,            \* the requests: each handler's position and locals
    faults,         \* calls that rejected so far
    edits           \* catalog edits so far

vars == <<products, orders, order_items, orders_id_seq, cache, pool, req, faults, edits>>

PoolMax == 20
CacheTTL == 300

Init ==
    /\ products = SeedProducts
    /\ orders = {}
    /\ order_items = {}
    /\ orders_id_seq = 1
    /\ cache = NoEntry
    /\ pool = 0
    /\ req = [r \in Requests |-> Blank]
    /\ faults = 0
    /\ edits = 0

MayReject == faults < MaxFaults

\* No finished request is waiting to be closed (see Close).
NoneDone == \A q \in Requests : req[q].pc # "done"

Store == <<products, orders, order_items, orders_id_seq>>

\* ------------------------------------------------- GET /api/products
\* JSON.stringify of a row: a Date becomes its ISO string.
ToJSON(v) == IF "date" \in DOMAIN v THEN [iso |-> v.date] ELSE v
Stringify(rows) == [k \in 1..Len(rows) |-> [rows[k] EXCEPT !.created_at = ToJSON(@)]]
\* JSON.parse: the ISO string stays a string.
Parse(text) == text

\* SELECT ... FROM products WHERE stock > 0 ORDER BY created_at DESC: every
\* order of the in-stock rows that the sort key allows.
InStock(p) == {id \in DOMAIN p : p[id].stock > 0}
Row(p, id) == [id |-> id, price |-> p[id].price, stock |-> p[id].stock,
               created_at |-> [date |-> p[id].created_at]]
Listings(p) ==
    LET ids == InStock(p)
        n   == Cardinality(ids)
    IN  { [k \in 1..n |-> Row(p, f[k])] :
            f \in { g \in [1..n -> ids] :
                      /\ \A a, b \in 1..n : a # b => g[a] # g[b]
                      /\ \A a, b \in 1..n : a < b => p[g[a]].created_at >= p[g[b]].created_at } }

\* `if (cached === true)`: never so for a string, every read goes to the store.
IsHitNever(entry) == FALSE

\* `if (cached)`: any non-empty string, '[]' included.
IsHit(entry) == entry.present

Respond(r, status, body) ==
    [req[r] EXCEPT !.pc = "done", !.resp = [NoResp EXCEPT !.status = status, !.body = body]]

StartGet(r) ==
    /\ NoneDone
    /\ req[r].pc = "idle"
    /\ \A q \in Requests : q < r => req[q].kind # "none"
    /\ req' = [req EXCEPT ![r] = [Blank EXCEPT !.kind = "GET", !.pc = "cacheGet", !.ver = edits]]
    /\ UNCHANGED <<Store, cache, pool, edits, faults>>

CacheGet(r) ==
    /\ NoneDone
    /\ req[r].pc = "cacheGet"
    /\ \/ /\ IsHit(cache)
          /\ req' = [req EXCEPT ![r] = Respond(r, 200, Stringify(Parse(cache.value)))]
          /\ UNCHANGED faults
       \/ /\ ~IsHit(cache)
          /\ req' = [req EXCEPT ![r].pc = "query"]
          /\ UNCHANGED faults
       \/ /\ MayReject
          /\ faults' = faults + 1
          /\ req' = [req EXCEPT ![r] = [Respond(r, 500, << >>) EXCEPT !.failed = @ \cup {"cache"}]]
    /\ UNCHANGED <<Store, cache, pool, edits>>

QueryProducts(r) ==
    /\ NoneDone
    /\ req[r].pc = "query"
    /\ \/ /\ \E rows \in Listings(products) :
               req' = [req EXCEPT ![r].pc = "setEx", ![r].rows = rows, ![r].queried = TRUE]
          /\ UNCHANGED faults
       \/ /\ MayReject
          /\ faults' = faults + 1
          /\ req' = [req EXCEPT ![r] = [Respond(r, 500, << >>) EXCEPT !.failed = @ \cup {"store"}]]
    /\ UNCHANGED <<Store, cache, pool, edits>>

SetEx(r) ==
    /\ NoneDone
    /\ req[r].pc = "setEx"
    /\ \/ /\ cache' = [present |-> TRUE, value |-> Stringify(req[r].rows),
                       ttl |-> CacheTTL, stale |-> req[r].stale]
          /\ req' = [req EXCEPT ![r] = Respond(r, 200, Stringify(req[r].rows))]
          /\ UNCHANGED faults
       \/ /\ MayReject
          /\ faults' = faults + 1
          /\ req' = [req EXCEPT ![r] = [Respond(r, 500, << >>) EXCEPT !.failed = @ \cup {"cache"}]]
          /\ UNCHANGED cache
    /\ UNCHANGED <<Store, pool, edits>>

\* --------------------------------------------------- POST /api/orders
\* The catch block is entered: the next call is ROLLBACK.
Caught(r, why) == [req[r] EXCEPT !.pc = "rollback", !.failed = @ \cup why]

\* `finally { client.release() }`.
Released(rec) == [rec EXCEPT !.client = FALSE, !.released = @ + 1]

\* `total = price * item.quantity`: the running total overwritten.
AccumulateOverwrite(total, price, quantity) == DMulInt(DecToDouble(price), quantity)

\* `total += price * item.quantity`, price being the DECIMAL's string.
Accumulate(total, price, quantity) == DAdd(total, DMulInt(DecToDouble(price), quantity))

\* `for (const item of items)`: where the handler goes for item k.
LoopFrom(rec, k) ==
    IF ~rec.body.hasItems THEN [rec EXCEPT !.pc = "rollback", !.failed = @ \cup {"type"}]
    ELSE IF k > Len(rec.body.items) THEN [rec EXCEPT !.pc = "update"]
    ELSE [rec EXCEPT !.pc = "select", !.i = k]

StartPost(r) ==
    /\ NoneDone
    /\ req[r].pc = "idle"
    /\ \A q \in Requests : q < r => req[q].kind # "none"
    /\ \E b \in Bodies :
         req' = [req EXCEPT ![r] = [Blank EXCEPT !.kind = "POST", !.pc = "connect",
                                                 !.body = b, !.ver = edits]]
    /\ UNCHANGED <<Store, cache, pool, edits, faults>>

\* `const client = await pool.connect()`, outside the try.
Connect(r) ==
    /\ NoneDone
    /\ req[r].pc = "connect"
    /\ \/ /\ pool < PoolMax
          /\ pool' = pool + 1
          /\ req' = [req EXCEPT ![r].pc = "begin", ![r].client = TRUE]
          /\ UNCHANGED faults
       \/ /\ MayReject
          /\ faults' = faults + 1
          /\ req' = [req EXCEPT ![r].pc = "done", ![r].failed = @ \cup {"store"}]
          /\ UNCHANGED pool
    /\ UNCHANGED <<Store, cache, edits>>

Begin(r) ==
    /\ NoneDone
    /\ req[r].pc = "begin"
    /\ \/ /\ req' = [req EXCEPT ![r].pc = "insertOrder", ![r].began = TRUE]
          /\ UNCHANGED faults
       \/ /\ MayReject
          /\ faults' = faults + 1
          /\ req' = [req EXCEPT ![r] = Caught(r, {"store"})]
    /\ UNCHANGED <<Store, cache, pool, edits>>

\* INSERT INTO orders ... RETURNING *; user_id is NOT NULL.
InsertOrder(r) ==
    /\ NoneDone
    /\ req[r].pc = "insertOrder"
    /\ \/ /\ req[r].body.hasUser
          /\ orders_id_seq' = orders_id_seq + 1
          /\ req' = [req EXCEPT ![r] =
                       LoopFrom([req[r] EXCEPT
                                   !.orderId = orders_id_seq,
                                   !.total = DZero,
                                   !.txOrders = {[id |-> orders_id_seq,
                                                  user_id |-> req[r].body.user_id,
                                                  status |-> "pending", total |-> 0]}], 1)]
          /\ UNCHANGED faults
       \/ /\ ~req[r].body.hasUser
          /\ req' = [req EXCEPT ![r] = Caught(r, {"store"})]
          /\ UNCHANGED <<orders_id_seq, faults>>
       \/ /\ MayReject
          /\ faults' = faults + 1
          /\ req' = [req EXCEPT ![r] = Caught(r, {"store"})]
          /\ UNCHANGED orders_id_seq
    /\ UNCHANGED <<products, orders, order_items, cache, pool, edits>>

\* SELECT price FROM products WHERE id = $1, then `product.rows[0].price`
\* and the running total.
SelectPrice(r) ==
    LET item == req[r].body.items[req[r].i]
    IN  /\ NoneDone
        /\ req[r].pc = "select"
        /\ \/ /\ item.product_id \in DOMAIN products
              /\ req' = [req EXCEPT ![r].pc = "insertItem",
                                    ![r].price = products[item.product_id].price,
                                    ![r].total = Accumulate(req[r].total,
                                                            products[item.product_id].price,
                                                            item.quantity)]
              /\ UNCHANGED faults
           \/ /\ item.product_id \notin DOMAIN products
              /\ req' = [req EXCEPT ![r] = Caught(r, {"type"})]
              /\ UNCHANGED faults
           \/ /\ MayReject
              /\ faults' = faults + 1
              /\ req' = [req EXCEPT ![r] = Caught(r, {"store"})]
        /\ UNCHANGED <<Store, cache, pool, edits>>

\* INSERT INTO order_items; `line` stands for the row's serial id.
InsertItem(r) ==
    LET item == req[r].body.items[req[r].i]
    IN  /\ NoneDone
        /\ req[r].pc = "insertItem"
        /\ \/ /\ req' = [req EXCEPT ![r] =
                           LoopFrom([req[r] EXCEPT
                                       !.txItems = @ \cup {[order_id |-> req[r].orderId,
                                                            line |-> req[r].i,
                                                            product_id |-> item.product_id,
                                                            quantity |-> item.quantity,
                                                            price |-> req[r].price]}],
                                    req[r].i + 1)]
              /\ UNCHANGED faults
           \/ /\ MayReject
              /\ faults' = faults + 1
              /\ req' = [req EXCEPT ![r] = Caught(r, {"store"})]
        /\ UNCHANGED <<Store, cache, pool, edits>>

\* UPDATE orders SET total = $1 WHERE id = $2.
UpdateTotal(r) ==
    /\ NoneDone
    /\ req[r].pc = "update"
    /\ \/ /\ req' = [req EXCEPT ![r].pc = "commit",
                                ![r].txOrders = {[o EXCEPT !.total = DoubleToCents(req[r].total)]
                                                   : o \in req[r].txOrders}]
          /\ UNCHANGED faults
       \/ /\ MayReject
          /\ faults' = faults + 1
          /\ req' = [req EXCEPT ![r] = Caught(r, {"store"})]
    /\ UNCHANGED <<Store, cache, pool, edits>>

Commit(r) ==
    /\ NoneDone
    /\ req[r].pc = "commit"
    /\ \/ /\ orders' = orders \cup req[r].txOrders
          /\ order_items' = order_items \cup req[r].txItems
          /\ req' = [req EXCEPT ![r].pc = "del", ![r].txOrders = {}, ![r].txItems = {},
                                ![r].committed = TRUE, ![r].delIssued = TRUE]
          /\ UNCHANGED faults
       \/ /\ MayReject
          /\ faults' = faults + 1
          /\ req' = [req EXCEPT ![r] = Caught(r, {"store"})]
          /\ UNCHANGED <<orders, order_items>>
    /\ UNCHANGED <<products, orders_id_seq, cache, pool, edits>>

\* `await redisClient.del('products')`, inside the try.  A listing that a
\* GET has read and not yet written is from now on older than this delete.
CacheDel(r) ==
    /\ NoneDone
    /\ req[r].pc = "del"
    /\ \/ /\ cache' = NoEntry
          /\ req' = [q \in Requests |->
                       IF q = r THEN [req[q] EXCEPT !.pc = "respond"]
                       ELSE IF req[q].pc = "setEx" THEN [req[q] EXCEPT !.stale = TRUE]
                       ELSE req[q]]
          /\ UNCHANGED faults
       \/ /\ MayReject
          /\ faults' = faults + 1
          /\ req' = [req EXCEPT ![r] = Caught(r, {"cache"})]
          /\ UNCHANGED cache
    /\ UNCHANGED <<Store, pool, edits>>

\* `res.status(201).json({ orderId, total })`, then the finally block.
Respond201(r) ==
    /\ NoneDone
    /\ req[r].pc = "respond"
    /\ pool' = pool - 1
    /\ req' = [req EXCEPT ![r] =
                 Released([req[r] EXCEPT !.pc = "done",
                                         !.resp = [NoResp EXCEPT !.status = 201,
                                                                 !.orderId = req[r].orderId,
                                                                 !.total = req[r].total]])]
    /\ UNCHANGED <<Store, cache, edits, faults>>

\* The catch block: `await client.query('ROLLBACK')`, the 500, the finally
\* block.  A ROLLBACK that rejects throws out of the catch block: the
\* finally block still runs and no response is written.  The uncommitted
\* rows are gone either way (the server aborts a lost session's work).
Rollback(r) ==
    /\ NoneDone
    /\ req[r].pc = "rollback"
    /\ pool' = pool - 1
    /\ \/ /\ req' = [req EXCEPT ![r] =
                       Released([req[r] EXCEPT !.pc = "done", !.txOrders = {}, !.txItems = {},
                                               !.resp = [NoResp EXCEPT !.status = 500]])]
          /\ UNCHANGED faults
       \/ /\ MayReject
          /\ faults' = faults + 1
          /\ req' = [req EXCEPT ![r] =
                       Released([req[r] EXCEPT !.pc = "done", !.txOrders = {}, !.txItems = {},
                                               !.failed = @ \cup {"store"}])]
    /\ UNCHANGED <<Store, cache, edits>>

\* ------------------------------------------------------ environment
\* The clock advances under a live key; the key is gone once its time to
\* live has run out.
Tick ==
    /\ NoneDone
    /\ cache.present
    /\ cache' = IF cache.ttl <= TickSeconds THEN NoEntry
                ELSE [cache EXCEPT !.ttl = @ - TickSeconds]
    /\ UNCHANGED <<Store, pool, req, faults, edits>>

\* The catalog owner reprices a product or marks it sold out.
EditProduct ==
    /\ NoneDone
    /\ edits < MaxCatalogChanges
    /\ edits' = edits + 1
    /\ \E id \in DOMAIN products :
         \/ \E c \in RepricedTo : products' = [products EXCEPT ![id].price = c]
         \/ products' = [products EXCEPT ![id].stock = 0]
    /\ UNCHANGED <<orders, order_items, orders_id_seq, cache, pool, req, faults>>

\* The response is with the client: the handler's locals are gone.  A
\* finished request is closed before anything else moves; closing touches
\* nothing the program reads.
Close(r) ==
    /\ req[r].pc = "done"
    /\ req' = [req EXCEPT ![r] = [Blank EXCEPT !.kind = "closed", !.pc = "closed"]]
    /\ UNCHANGED <<Store, cache, pool, edits, faults>>

Next ==
    \/ \E r \in Requests : StartGet(r)
    \/ \E r \in Requests : CacheGet(r)
    \/ \E r \in Requests : QueryProducts(r)
    \/ \E r \in Requests : SetEx(r)
    \/ \E r \in Requests : StartPost(r)
    \/ \E r \in Requests : Connect(r)
    \/ \E r \in Requests : Begin(r)
    \/ \E r \in Requests : InsertOrder(r)
    \/ \E r \in Requests : SelectPrice(r)
    \/ \E r \in Requests : InsertItem(r)
    \/ \E r \in Requests : UpdateTotal(r)
    \/ \E r \in Requests : Commit(r)
    \/ \E r \in Requests : CacheDel(r)
    \/ \E r \in Requests : Respond201(r)
    \/ \E r \in Requests : Rollback(r)
    \/ \E r \in Requests : Close(r)
    \/ Tick
    \/ EditProduct

Spec == Init /\ [][Next]_vars

\* ------------------------------------------------------------- claims
IsDone(r, kind) == req[r].kind = kind /\ req[r].pc = "done"

ItemsOf(id) == {it \in order_items : it.order_id = id}

RECURSIVE SumRows(_)
SumRows(rows) ==
    IF rows = {} THEN 0
    ELSE LET it == CHOOSE x \in rows : TRUE
         IN  it.price * it.quantity + SumRows(rows \ {it})

RECURSIVE SumLines(_, _)
SumLines(items, p) ==
    IF items = << >> THEN 0
    ELSE p[Head(items).product_id].price * Head(items).quantity + SumLines(Tail(items), p)

AllKnown(b) == \A k \in 1..Len(b.items) : b.items[k].product_id \in DOMAIN products
WellFormed(b) == b.hasUser /\ b.hasItems /\ \A k \in 1..Len(b.items) : b.items[k].quantity > 0

\* The rows of request r's order are committed as the request asked: one
\* order, pending, one item per line, the total the sum of the lines at the
\* catalog's prices.
Persisted(r) ==
    LET mine == {o \in orders : o.id = req[r].orderId}
        b    == req[r].body
    IN  /\ Cardinality(mine) = 1
        /\ \A o \in mine : /\ o.status = "pending"
                           /\ o.user_id = b.user_id
                           /\ o.total = SumLines(b.items, products)
        /\ Cardinality(ItemsOf(req[r].orderId)) = Len(b.items)
        /\ \A k \in 1..Len(b.items) :
             \E it \in ItemsOf(req[r].orderId) :
                /\ it.line = k
                /\ it.product_id = b.items[k].product_id
                /\ it.quantity = b.items[k].quantity
                /\ it.price = products[b.items[k].product_id].price

\* A create-order request in the case C1 is about: user and items given,
\* every product known, no call rejected, the catalog as it was when the
\* request began.
CleanOrder(r) ==
    /\ IsDone(r, "POST")
    /\ req[r].body.hasUser /\ req[r].body.hasItems /\ AllKnown(req[r].body)
    /\ req[r].failed = {}
    /\ req[r].ver = edits

\* C1: a create-order request whose lines all name known products, with no
\* call failing, commits one pending order and one order_items row per
\* line, the stored total being the sum of price * quantity, and the 201
\* response carries that order id and that total (the JSON number of the
\* response is the decimal stored).
C1_OrderPersistedAndReported ==
    \A r \in Requests :
       CleanOrder(r) =>
          /\ Persisted(r)
          /\ req[r].resp.status = 201
          /\ req[r].resp.orderId = req[r].orderId
          /\ req[r].resp.total = DecToDouble(SumLines(req[r].body.items, products))

\* The part of C1 that the code keeps: the committed rows and the status.
C1_RowsPersisted ==
    \A r \in Requests :
       CleanOrder(r) =>
          Persisted(r) /\ req[r].resp.status = 201 /\ req[r].resp.orderId = req[r].orderId

\* The handler has looked up a product that is not in the catalog.
UnknownProductHit(r) ==
    /\ IsDone(r, "POST")
    /\ ~AllKnown(req[r].body)
    /\ "type" \in req[r].failed

\* C2: when a line names an unknown product, after the handler finishes no
\* order row and no order_items row of the request is committed, an error
\* response is returned, and no cache delete was issued.
C2_UnknownProductRejected ==
    \A r \in Requests :
       UnknownProductHit(r) =>
          /\ \A o \in orders : o.id # req[r].orderId
          /\ ItemsOf(req[r].orderId) = {}
          /\ ~req[r].delIssued
          /\ req[r].resp.status >= 400

\* The part of C2 that the code keeps: no row survives and the cache is
\* not touched.
C2_NoRowsNoDelete ==
    \A r \in Requests :
       UnknownProductHit(r) =>
          /\ \A o \in orders : o.id # req[r].orderId
          /\ ItemsOf(req[r].orderId) = {}
          /\ ~req[r].delIssued

\* C3: a request whose transaction has committed is answered 201 with the
\* order id, whatever the cache delete does.
C3_CommittedOrderAnswered201 ==
    \A r \in Requests :
       IsDone(r, "POST") /\ req[r].committed =>
          req[r].resp.status = 201 /\ req[r].resp.orderId = req[r].orderId

\* C4: a product read whose store query did not fail is answered 200, even
\* when a cache call rejected.
C4_CacheFailureNeverFailsRead ==
    \A r \in Requests :
       IsDone(r, "GET") /\ "store" \notin req[r].failed => req[r].resp.status = 200

\* C5: when the 201 response of a committed order is produced the key
\* 'products' is absent, and no read is answered from an entry whose listing
\* was queried before an invalidation that has completed.
C5_AbsentWhenAnswered ==
    [][\A r \in Requests :
         /\ (req[r].pc = "respond" /\ req'[r].pc = "done") => ~cache'.present
         /\ (req[r].pc = "cacheGet" /\ req'[r].pc = "done" /\ req'[r].resp.status = 200)
               => ~cache.stale]_vars

\* In-stock rows of the store, each once, newest first, as the table holds
\* them.
IsListingOf(rows, p) ==
    /\ {rows[k].id : k \in 1..Len(rows)} = {id \in DOMAIN p : p[id].stock > 0}
    /\ \A a, b \in 1..Len(rows) : a # b => rows[a].id # rows[b].id
    /\ \A a, b \in 1..Len(rows) : a < b => p[rows[a].id].created_at >= p[rows[b].id].created_at
    /\ \A k \in 1..Len(rows) : /\ rows[k].price = p[rows[k].id].price
                               /\ rows[k].stock = p[rows[k].id].stock

C6_Step(r) ==
    \* the miss: query the store ...
    /\ (req[r].pc = "query" /\ req'[r].pc = "setEx") => IsListingOf(req'[r].rows, products)
    \* ... store exactly that result for 300 seconds and return it
    /\ (req[r].pc = "setEx" /\ req'[r].resp.status = 200) =>
          /\ cache'.present /\ cache'.ttl = 300
          /\ \A k \in 1..Len(req[r].rows) :
                /\ cache'.value[k].id = req[r].rows[k].id
                /\ cache'.value[k].price = req[r].rows[k].price
                /\ cache'.value[k].stock = req[r].rows[k].stock
          /\ Len(cache'.value) = Len(req[r].rows)
          /\ req'[r].resp.body = cache'.value
    \* the hit: a lookup that finds the key answers with its value and
    \* queries nothing
    /\ (req[r].pc = "cacheGet" /\ cache.present /\ req'[r].pc # "cacheGet"
          /\ "cache" \notin req'[r].failed) =>
          /\ req'[r].pc = "done"
          /\ req'[r].resp.status = 200
          /\ req'[r].resp.body = cache.value
          /\ ~req'[r].queried

\* C6: a read that finds no key queries the store for the in-stock rows,
\* newest first, stores exactly that under 'products' for 300 seconds and
\* returns it; a read that finds the key, which lives no longer than its 300
\* seconds, returns exactly the cached payload without a store query,
\* whatever the store holds by then.
C6_MissFillsHitReturnsCached ==
    /\ [](cache.present => cache.ttl \in 1..300)
    /\ [][\A r \in Requests : C6_Step(r)]_vars

\* A read was answered from the cache with a payload that is no listing of
\* the store any more.
C6_Witness ==
    \E r \in Requests :
       /\ IsDone(r, "GET")
       /\ req[r].resp.status = 200
       /\ ~req[r].queried
       /\ ~IsListingOf(req[r].resp.body, products)
       /\ cache.present /\ cache.ttl < 300

\* C7: a malformed create-order request (no user_id, no items, a quantity
\* that is not positive) is refused as a client error before BEGIN, and no
\* committed order_items row has a quantity that is not positive.
C7_MalformedRefusedBeforeBegin ==
    /\ \A r \in Requests :
          req[r].kind = "POST" /\ ~WellFormed(req[r].body) =>
             /\ req[r].pc \in {"connect", "done"}
             /\ ~req[r].began
             /\ req[r].pc = "done" => req[r].resp.status \in 400..499
    /\ \A it \in order_items : it.quantity > 0

InTransaction(r) ==
    req[r].kind = "POST" /\ req[r].pc \in {"select", "insertItem", "update", "commit"}

\* What request r's running total must be: its own lines so far.
OwnLines(r) ==
    SumRows(req[r].txItems)
    + (IF req[r].pc = "insertItem"
       THEN req[r].price * req[r].body.items[req[r].i].quantity ELSE 0)

C8_State ==
    /\ \A o \in orders : o.total = SumRows(ItemsOf(o.id))
    /\ \A r \in Requests :
          InTransaction(r) =>
             /\ DoubleToCents(req[r].total) = OwnLines(r)
             /\ \A it \in req[r].txItems : it.order_id = req[r].orderId
             /\ \A o \in req[r].txOrders : o.id = req[r].orderId

C8_Step ==
    \* the captured price is the price the lookup read
    /\ \A r \in Requests :
          (req[r].pc = "select" /\ req'[r].pc = "insertItem") =>
             req'[r].price = products[req[r].body.items[req[r].i].product_id].price
    /\ \A r \in Requests :
          (req[r].pc = "insertItem" /\ req'[r].pc \in {"select", "update"}) =>
             \E it \in req'[r].txItems : it.line = req[r].i /\ it.price = req[r].price
    \* committed rows never change, whatever the catalog does later
    /\ orders \subseteq orders'
    /\ order_items \subseteq order_items'

\* C8: under any interleaving of create-order requests each committed
\* order's total is the sum of its own order_items (captured price *
\* quantity), each captured price is the one read in that transaction, and
\* a request's running total and rows are its own.
C8_TotalsAreOwn == []C8_State /\ [][C8_Step]_vars

\* Two orders for the same product overlapped: one is committed, with an id
\* taken after the other's, while the other is still in its transaction.
C8_Witness ==
    \E r \in Requests, o \in orders :
       /\ InTransaction(r)
       /\ o.id > req[r].orderId
       /\ \E a \in ItemsOf(o.id), b \in req[r].txItems : a.product_id = b.product_id

\* C9: every create-order request ends with exactly one response, a 500
\* when a store call failed, and with its connection released once.
C9_AlwaysAnsweredAndReleased ==
    \A r \in Requests :
       IsDone(r, "POST") =>
          /\ req[r].resp.status # 0
          /\ "store" \in req[r].failed => req[r].resp.status = 500
          /\ ~req[r].client
          /\ req[r].released <= 1

\* C10: once an order's cache delete has completed, the key never holds a
\* listing that was queried from the store before that delete.
C10_NoListingOlderThanDelete == ~(cache.present /\ cache.stale)
====
